---- MODULE Spec2Model ----
(***************************************************************************)
(* DocumentService (src/src/services/documentService.ts): the ingestion    *)
(* orchestrator.  uploadDocument validates a file, has it parsed and       *)
(* chunked, has the chunks embedded, builds one vector record per chunk    *)
(* and hands the records to the vector store; every failure is caught and  *)
(* turned into an error DocumentStats.  Several uploadDocument calls may   *)
(* be in flight at once: each is an async function that is suspended at    *)
(* its three awaits, and all share one vector store.                       *)
(*                                                                         *)
(* DocumentProcessor, EmbeddingManager and VectorStore are imported by the *)
(* service but their code is not part of the sources at hand; they are     *)
(* modelled from the specification's component contracts (sections 4.1 to  *)
(* 4.4) and are marked as such where they are defined.                     *)
(*                                                                         *)
(* Strings that the code concatenates (file names, record ids) are         *)
(* sequences of one-character strings, so that building an id is a real    *)
(* concatenation.                                                          *)
(***************************************************************************)
EXTENDS Integers, Sequences, FiniteSets, TLC

VARIABLES pc, file, config, textArray, vectorDocs, thrown, result, invoked, store

vars == <<pc, file, config, textArray, vectorDocs, thrown, result, invoked, store>>

(***************************************************************************)
(* Bounds of the model.                                                    *)
(***************************************************************************)
\* Number of uploadDocument calls made on the service (each runs once).
NumCalls == 2
\* Longest document text, in characters.
MaxTextLen == 3

Calls == 1 .. NumCalls

(***************************************************************************)
(* Input values.                                                           *)
(***************************************************************************)
None == "none"

Letters == <<"x", "y", "z">>

\* The text of a document of n characters; documents of different lengths
\* differ from their first character on.
Doc(n) == [i \in 1 .. n |-> Letters[((i + n) % 3) + 1]]

\* What a file holds: text a parser can extract, or bytes no parser decodes.
Contents ==
    {[decodable |-> TRUE, text |-> Doc(n)] : n \in 0 .. MaxTextLen}
        \cup {[decodable |-> FALSE, text |-> Doc(1)]}

\* File names; the second one ends like a record id of the first.
FileNames == {<<"a">>, <<"a", "-", "1">>}

PlainText == "text/plain"

FileTypes ==
    {"application/pdf", "text/plain", "text/markdown", "application/msword",
     "application/vnd.openxmlformats-officedocument.wordprocessingml.document",
     "image/png", ""}

\* The File objects handed to uploadDocument: name, size, type and bytes.
MakeFile(n, t, b) ==
    [name |-> n, size |-> Len(b.text), type |-> t, content |-> b]

Files == {MakeFile(n, t, b) : n \in FileNames, t \in FileTypes, b \in Contents}

\* The files of the concurrent runs: one supported and one unsupported type.
FilesConc ==
    {MakeFile(n, t, b) :
        n \in FileNames, t \in {PlainText, "image/png"}, b \in Contents}

NoFile == MakeFile(<<>>, "", [decodable |-> FALSE, text |-> <<>>])

ModelName == "mock-embedding-model"

MakeConfig(c, o) == [chunkSize |-> c, overlapSize |-> o, model |-> ModelName]

Configs == {MakeConfig(1, 0), MakeConfig(2, 1), MakeConfig(1, 1)}

ConfigsConc == {MakeConfig(1, 0)}

NoConfig == MakeConfig(0, 0)

\* Readings of Date.now().
Times == {1, 2}

TimesConc == {1}

(***************************************************************************)
(* DocumentProcessor.processDocument, modelled from the specification      *)
(* (4.1 Document Parser, 4.2 Chunker): deterministic in the file and the   *)
(* chunking options.                                                       *)
(***************************************************************************)
Min(a, b) == IF a <= b THEN a ELSE b

\* ceil(a / b) for a >= 0, b > 0
CeilDiv(a, b) == (a + b - 1) \div b

\* Chunk i starts at offset i * (chunkSize - overlapSize) and spans up to
\* chunkSize characters; a text no longer than chunkSize is one chunk, and an
\* empty text has no chunk.
ChunkCount(len, chunkSize, overlapSize) ==
    IF len = 0 THEN 0
    ELSE IF len <= chunkSize THEN 1
    ELSE CeilDiv(len - overlapSize, chunkSize - overlapSize)

Chunker(text, chunkSize, overlapSize) ==
    [i \in 1 .. ChunkCount(Len(text), chunkSize, overlapSize) |->
        SubSeq(text,
               (i - 1) * (chunkSize - overlapSize) + 1,
               Min((i - 1) * (chunkSize - overlapSize) + chunkSize, Len(text)))]

Failed(msg) == [ok |-> FALSE, message |-> msg]

Resolved(v) == [ok |-> TRUE, value |-> v]

\* The outcomes of processDocument(file, options): InvalidConfig when the
\* overlap does not leave the chunker advancing, ParseFailure when the bytes
\* cannot be decoded, else a ProcessedDocument.  For an empty text the
\* document may carry an empty chunks array or no chunks field at all.
ProcessDocument(f, options) ==
    IF options.overlapSize >= options.chunkSize
    THEN {Failed("InvalidConfig")}
    ELSE IF ~f.content.decodable
    THEN {Failed("ParseFailure")}
    ELSE IF Len(f.content.text) = 0
    THEN {Resolved([chunks |-> <<>>]), Resolved([text |-> <<>>])}
    ELSE {Resolved([chunks |->
            Chunker(f.content.text, options.chunkSize, options.overlapSize)])}

(***************************************************************************)
(* EmbeddingManager.embedDocuments, modelled from the specification (4.3): *)
(* one vector per text, in the order of the texts, or EmbeddingFailure     *)
(* once the provider's retries are exhausted; no partial list is returned. *)
(***************************************************************************)
CharCode(ch) == CHOOSE i \in DOMAIN Letters : Letters[i] = ch

\* The embedding of one text: a vector of fixed dimension that is a function
\* of the text alone.
Embed(text) == <<Len(text), IF Len(text) = 0 THEN 0 ELSE CharCode(text[1])>>

\* The provider is called only when there is a text to embed.
EmbedDocuments(texts) ==
    {Resolved([i \in 1 .. Len(texts) |-> Embed(texts[i])])}
        \cup (IF Len(texts) > 0 THEN {Failed("EmbeddingFailure")} ELSE {})

(***************************************************************************)
(* VectorStore, modelled from the specification (4.4): records keyed by    *)
(* id; storeVectors upserts record by record, or fails as a whole with     *)
(* StoreUnavailable or StoreWriteFailure and writes nothing.               *)
(***************************************************************************)
EmptyStore == [id \in {} |-> None]

DocIds(docs) == {docs[i].id : i \in DOMAIN docs}

\* The last record of docs with this id.
LastWith(docs, id) ==
    docs[CHOOSE i \in DOMAIN docs :
            /\ docs[i].id = id
            /\ \A j \in DOMAIN docs : docs[j].id = id => j <= i]

Upsert(st, docs) ==
    [id \in DOMAIN st \cup DocIds(docs) |->
        IF id \in DocIds(docs) THEN LastWith(docs, id) ELSE st[id]]

StoreVectors(st, docs) ==
    {[ok |-> TRUE, store |-> Upsert(st, docs)],
     [ok |-> FALSE, message |-> "StoreUnavailable"],
     [ok |-> FALSE, message |-> "StoreWriteFailure"]}

\* The records of one source file.
RecordsOf(st, fileName) ==
    {id \in DOMAIN st : st[id].payload.metadata.source = fileName}

\* VectorStore.listDocuments: the file names that have a record.
StoreListDocuments(st) == {st[id].payload.metadata.source : id \in DOMAIN st}

\* VectorStore.getDocumentStats: not-found (None) for a file name without a
\* record, else the count of its records.
StoreGetDocumentStats(st, fileName) ==
    IF RecordsOf(st, fileName) = {}
    THEN [found |-> FALSE]
    ELSE [found |-> TRUE,
          fileName |-> fileName,
          totalChunks |-> Cardinality(RecordsOf(st, fileName)),
          status |-> "completed"]

(***************************************************************************)
(* DocumentService.                                                        *)
(***************************************************************************)
AllowedTypes ==
    <<"application/pdf",
      "text/plain",
      "text/markdown",
      "application/msword",
      "application/vnd.openxmlformats-officedocument.wordprocessingml.document">>

\* Array.prototype.includes
Includes(arr, x) == \E i \in DOMAIN arr : arr[i] = x

\* Mutant: the allowed list without its last entry.
ValidateFileWithoutDocx(f) == Includes(SubSeq(AllowedTypes, 1, 4), f.type)

ValidateFile(f) == Includes(AllowedTypes, f.type)

\* The message of the Error thrown on a failed validation (in the source a
\* Chinese sentence, "unsupported file format").
UnsupportedFormat == "unsupported file format"

Digits == <<"0", "1", "2", "3", "4", "5", "6", "7", "8", "9">>

\* A number as the template literal prints it.
RECURSIVE Decimal(_)
Decimal(n) ==
    IF n < 10 THEN <<Digits[n + 1]>>
    ELSE Decimal(n \div 10) \o <<Digits[(n % 10) + 1]>>

\* Mutant: the id without the chunk index.
MakeIdWithoutIndex(name, index) == name

\* Mutant: the id without the file name.
MakeIdWithoutName(name, index) == <<"-">> \o Decimal(index)

\* Mutant: the id with the index counted from 1.
MakeIdFromOne(name, index) == name \o <<"-">> \o Decimal(index + 1)

\* `${file.name}-${index}`
MakeId(name, index) == name \o <<"-">> \o Decimal(index)

\* textChunks.chunks || []
ChunksOrEmpty(doc) == IF "chunks" \in DOMAIN doc THEN doc.chunks ELSE <<>>

\* Mutant: the metadata index counted from 1.
VectorDocIndexFromOne(f, text, index, vectors) ==
    [id |-> f.name \o <<"-">> \o Decimal(index),
     vector |-> vectors[index + 1],
     payload |-> [text |-> text,
                  metadata |-> [source |-> f.name, index |-> index + 1]]]

\* One element of textArray.map(...); index counts from 0.
VectorDoc(f, text, index, vectors) ==
    [id |-> MakeId(f.name, index),
     vector |-> vectors[index + 1],
     payload |-> [text |-> text,
                  metadata |-> [source |-> f.name, index |-> index]]]

\* Mutant: the last chunk is left out.
BuildVectorDocsButLast(f, texts, vectors) ==
    [i \in 1 .. Len(texts) - 1 |-> VectorDoc(f, texts[i], i - 1, vectors)]

BuildVectorDocs(f, texts, vectors) ==
    [i \in 1 .. Len(texts) |-> VectorDoc(f, texts[i], i - 1, vectors)]

\* Mutant: the stats are returned with a status that is not terminal.
CompletedStatsStillProcessing(f, texts, now) ==
    [fileName |-> f.name,
     fileSize |-> f.size,
     totalChunks |-> Len(texts),
     processingTime |-> now,
     status |-> "processing"]

\* The DocumentStats of the try block's return.
CompletedStats(f, texts, now) ==
    [fileName |-> f.name,
     fileSize |-> f.size,
     totalChunks |-> Len(texts),
     processingTime |-> now,
     status |-> "completed"]

\* Mutant: the caught error's message is replaced by a fixed text.
ErrorStatsFixedMessage(f, message, now) ==
    [fileName |-> f.name,
     fileSize |-> f.size,
     totalChunks |-> 0,
     processingTime |-> now,
     status |-> "error",
     error |-> "upload failed"]

\* The DocumentStats of the catch block's return.
ErrorStats(f, message, now) ==
    [fileName |-> f.name,
     fileSize |-> f.size,
     totalChunks |-> 0,
     processingTime |-> now,
     status |-> "error",
     error |-> message]

NoResult == [status |-> None]

Init ==
    /\ pc = [c \in Calls |-> "idle"]
    /\ file = [c \in Calls |-> NoFile]
    /\ config = [c \in Calls |-> NoConfig]
    /\ textArray = [c \in Calls |-> <<>>]
    /\ vectorDocs = [c \in Calls |-> <<>>]
    /\ thrown = [c \in Calls |-> None]
    /\ result = [c \in Calls |-> NoResult]
    /\ invoked = [c \in Calls |-> {}]
    /\ store = EmptyStore

\* catch (error) { return {...} }: the call ends with the error's message.
Catch(c, f, message, T) ==
    /\ thrown' = [thrown EXCEPT ![c] = message]
    /\ \E now \in T : result' = [result EXCEPT ![c] = ErrorStats(f, message, now)]
    /\ pc' = [pc EXCEPT ![c] = "done"]

\* uploadDocument(f, k) is called and runs to its first await: validation,
\* then the call of processDocument.
Upload(c, f, k, T) ==
    /\ pc[c] = "idle"
    /\ file' = [file EXCEPT ![c] = f]
    /\ config' = [config EXCEPT ![c] = k]
    /\ IF ~ValidateFile(f)
       THEN /\ Catch(c, f, UnsupportedFormat, T)
            /\ UNCHANGED invoked
       ELSE /\ invoked' = [invoked EXCEPT ![c] = @ \cup {"processDocument"}]
            /\ pc' = [pc EXCEPT ![c] = "parsing"]
            /\ UNCHANGED <<thrown, result>>
    /\ UNCHANGED <<textArray, vectorDocs, store>>

\* Mutant: an empty chunk list is thrown as an error.
ProcessSettlesRejectingEmpty(c, T) ==
    /\ pc[c] = "parsing"
    /\ \E r \in ProcessDocument(file[c],
                    [chunkSize |-> config[c].chunkSize,
                     overlapSize |-> config[c].overlapSize]) :
          IF r.ok /\ Len(ChunksOrEmpty(r.value)) > 0
          THEN /\ textArray' = [textArray EXCEPT ![c] = ChunksOrEmpty(r.value)]
               /\ invoked' = [invoked EXCEPT ![c] = @ \cup {"embedDocuments"}]
               /\ pc' = [pc EXCEPT ![c] = "embedding"]
               /\ UNCHANGED <<thrown, result>>
          ELSE /\ Catch(c, file[c], IF r.ok THEN "EmptyDocument" ELSE r.message, T)
               /\ UNCHANGED <<textArray, invoked>>
    /\ UNCHANGED <<file, config, vectorDocs, store>>

\* processDocument settles: the chunks become textArray and embedDocuments
\* is called, or the rejection is caught.
ProcessSettles(c, T) ==
    /\ pc[c] = "parsing"
    /\ \E r \in ProcessDocument(file[c],
                    [chunkSize |-> config[c].chunkSize,
                     overlapSize |-> config[c].overlapSize]) :
          IF r.ok
          THEN /\ textArray' = [textArray EXCEPT ![c] = ChunksOrEmpty(r.value)]
               /\ invoked' = [invoked EXCEPT ![c] = @ \cup {"embedDocuments"}]
               /\ pc' = [pc EXCEPT ![c] = "embedding"]
               /\ UNCHANGED <<thrown, result>>
          ELSE /\ Catch(c, file[c], r.message, T)
               /\ UNCHANGED <<textArray, invoked>>
    /\ UNCHANGED <<file, config, vectorDocs, store>>

\* Mutant: a rejected embedDocuments is taken for an empty vector list and
\* the records are stored all the same.
EmbedSettlesIgnoringFailure(c, T) ==
    /\ pc[c] = "embedding"
    /\ \E r \in EmbedDocuments(textArray[c]) :
          /\ vectorDocs' = [vectorDocs EXCEPT ![c] =
                BuildVectorDocs(file[c], textArray[c],
                    IF r.ok THEN r.value
                    ELSE [i \in 1 .. Len(textArray[c]) |-> <<>>])]
          /\ invoked' = [invoked EXCEPT ![c] = @ \cup {"storeVectors"}]
          /\ pc' = [pc EXCEPT ![c] = "storing"]
          /\ UNCHANGED <<thrown, result>>
    /\ UNCHANGED <<file, config, textArray, store>>

\* embedDocuments settles: the vector records are built and storeVectors is
\* called, or the rejection is caught.
EmbedSettles(c, T) ==
    /\ pc[c] = "embedding"
    /\ \E r \in EmbedDocuments(textArray[c]) :
          IF r.ok
          THEN /\ vectorDocs' = [vectorDocs EXCEPT ![c] =
                                    BuildVectorDocs(file[c], textArray[c], r.value)]
               /\ invoked' = [invoked EXCEPT ![c] = @ \cup {"storeVectors"}]
               /\ pc' = [pc EXCEPT ![c] = "storing"]
               /\ UNCHANGED <<thrown, result>>
          ELSE /\ Catch(c, file[c], r.message, T)
               /\ UNCHANGED <<vectorDocs, invoked>>
    /\ UNCHANGED <<file, config, textArray, store>>

\* storeVectors settles: the store has taken the records and the call
\* returns its completed stats, or the rejection is caught.
StoreSettles(c, T) ==
    /\ pc[c] = "storing"
    /\ \E r \in StoreVectors(store, vectorDocs[c]) :
          IF r.ok
          THEN /\ store' = r.store
               /\ \E now \in T :
                    result' = [result EXCEPT ![c] =
                                  CompletedStats(file[c], textArray[c], now)]
               /\ pc' = [pc EXCEPT ![c] = "done"]
               /\ UNCHANGED thrown
          ELSE /\ Catch(c, file[c], r.message, T)
               /\ UNCHANGED store
    /\ UNCHANGED <<file, config, textArray, vectorDocs, invoked>>

\* DocumentService.getDocumentStats and listDocuments hand on the store's
\* answer.
GetDocumentStats(fileName) == StoreGetDocumentStats(store, fileName)

ListDocuments == StoreListDocuments(store)

\* Concurrent calls on one service.
Next ==
    \E c \in Calls :
        \/ \E f \in FilesConc, k \in ConfigsConc : Upload(c, f, k, TimesConc)
        \/ ProcessSettles(c, TimesConc)
        \/ EmbedSettles(c, TimesConc)
        \/ StoreSettles(c, TimesConc)

Spec == Init /\ [][Next]_vars

\* One call at a time's worth of inputs: every file type and configuration.
NextSingle ==
    \/ \E f \in Files, k \in Configs : Upload(1, f, k, Times)
    \/ ProcessSettles(1, Times)
    \/ EmbedSettles(1, Times)
    \/ StoreSettles(1, Times)

SpecSingle == Init /\ [][NextSingle]_vars

(***************************************************************************)
(* Vocabulary of the properties.                                           *)
(***************************************************************************)
Done(c) == pc[c] = "done"

Completed(c) == Done(c) /\ result[c].status = "completed"

Errored(c) == Done(c) /\ result[c].status = "error"

\* The five supported MIME types, as the specification lists them.
SupportedTypes ==
    {"application/pdf", "text/plain", "text/markdown", "application/msword",
     "application/vnd.openxmlformats-officedocument.wordprocessingml.document"}

\* '<fileName>-<i>' for a one-digit i.
IdText(name, i) == name \o <<"-", Digits[i + 1]>>

\* The record the specification asks for chunk i (from 0) of call c.
ExpectedDoc(c, i) ==
    [id |-> IdText(file[c].name, i),
     vector |-> Embed(textArray[c][i + 1]),
     payload |-> [text |-> textArray[c][i + 1],
                  metadata |-> [source |-> file[c].name, index |-> i]]]

ChunkIds(c) == {IdText(file[c].name, i) : i \in 0 .. Len(textArray[c]) - 1}

(***************************************************************************)
(* C1: a file whose MIME type is not one of the five supported types is    *)
(* answered with an error DocumentStats (totalChunks 0, the                *)
(* unsupported-format message) and neither the document processor, the     *)
(* embedding manager nor the vector store has been called; a file of a     *)
(* supported type passes validation and the parser/chunker is called.      *)
(***************************************************************************)
C1_ValidationGate ==
    \A c \in Calls :
        pc[c] # "idle" =>
            IF file[c].type \in SupportedTypes
            THEN /\ "processDocument" \in invoked[c]
                 /\ thrown[c] # UnsupportedFormat
            ELSE /\ Errored(c)
                 /\ result[c].totalChunks = 0
                 /\ result[c].error = UnsupportedFormat
                 /\ invoked[c] = {}

C1_Witness ==
    \E c \in Calls :
        /\ Errored(c)
        /\ file[c].type = "image/png"
        /\ result[c].error = UnsupportedFormat
        /\ invoked[c] = {}

(***************************************************************************)
(* C2: whichever step fails (validation, parse/chunk, embedding, store     *)
(* write), the call ends with a returned DocumentStats and not with an     *)
(* exception: status error, totalChunks 0, the failure's message in error, *)
(* and the name and size of the input file.                                *)
(***************************************************************************)
C2_FailureBecomesErrorStats ==
    \A c \in Calls :
        /\ Done(c) => result[c].status \in {"completed", "error"}
        /\ thrown[c] # None =>
              /\ Done(c)
              /\ result[c].status = "error"
              /\ result[c].totalChunks = 0
              /\ result[c].error = thrown[c]
              /\ result[c].fileName = file[c].name
              /\ result[c].fileSize = file[c].size
        /\ (Done(c) /\ thrown[c] = None) => result[c].status = "completed"

C2_Witness ==
    \E c \in Calls :
        /\ Errored(c)
        /\ thrown[c] = "StoreWriteFailure"
        /\ invoked[c] = {"processDocument", "embedDocuments", "storeVectors"}
        /\ result[c].fileSize > 0

(***************************************************************************)
(* C3: a call whose embedding step fails returns status error and never    *)
(* calls storeVectors, so none of its records reaches the store: every     *)
(* record in the store was handed over by a call that had all its chunks   *)
(* embedded and whose store write succeeded.                               *)
(***************************************************************************)
C3_NoStoreAfterEmbeddingFailure ==
    /\ \A c \in Calls :
          thrown[c] = "EmbeddingFailure" =>
              /\ Errored(c)
              /\ "storeVectors" \notin invoked[c]
              /\ vectorDocs[c] = <<>>
    /\ \A c \in Calls :
          "storeVectors" \in invoked[c] =>
              /\ thrown[c] # "EmbeddingFailure"
              /\ Len(vectorDocs[c]) = Len(textArray[c])
    /\ \A id \in DOMAIN store :
          \E d \in Calls :
              /\ Completed(d)
              /\ \E i \in DOMAIN vectorDocs[d] : vectorDocs[d][i] = store[id]
              /\ store[id].vector = Embed(store[id].payload.text)

C3_Witness ==
    \E c \in Calls :
        /\ Errored(c)
        /\ thrown[c] = "EmbeddingFailure"
        /\ Len(textArray[c]) = 2
        /\ RecordsOf(store, file[c].name) = {}

(***************************************************************************)
(* C4: a call that returns completed for a document of n chunks reports    *)
(* totalChunks n and has handed storeVectors exactly n records in chunk    *)
(* order, record i with id '<fileName>-<i>', the text of chunk i, the file *)
(* name as source, index i and the embedding vector of chunk i.            *)
(***************************************************************************)
C4_CompletedRecords ==
    \A c \in Calls :
        Completed(c) =>
            /\ result[c].totalChunks = Len(textArray[c])
            /\ "storeVectors" \in invoked[c]
            /\ Len(vectorDocs[c]) = Len(textArray[c])
            /\ \A i \in 0 .. Len(textArray[c]) - 1 :
                  vectorDocs[c][i + 1] = ExpectedDoc(c, i)

C4_Witness ==
    \E c \in Calls :
        /\ Completed(c)
        /\ Len(textArray[c]) = 2
        /\ result[c].totalChunks = 2
        /\ vectorDocs[c][2].payload.metadata.index = 1

\* The file and configuration of call c make the parser/chunker yield an
\* empty chunk list.
EmptyInput(c) ==
    /\ pc[c] # "idle"
    /\ file[c].type \in SupportedTypes
    /\ file[c].content.decodable
    /\ Len(file[c].content.text) = 0
    /\ config[c].overlapSize < config[c].chunkSize

StatusOf(c) ==
    IF pc[c] = "idle" THEN "pending"
    ELSE IF pc[c] = "done" THEN result[c].status
    ELSE "processing"

Rank(status) ==
    CASE status = "pending" -> 0
      [] status = "processing" -> 1
      [] status \in {"completed", "error"} -> 2
      [] OTHER -> -1

C6_StatusMovesForward ==
    /\ [](\A c \in Calls :
            /\ Rank(StatusOf(c)) >= 0
            /\ Done(c) <=> result[c] # NoResult
            /\ Done(c) => result[c].status \in {"completed", "error"})
    /\ [][\A c \in Calls :
            /\ Rank(StatusOf(c)') >= Rank(StatusOf(c))
            /\ Rank(StatusOf(c)) = 2 => (result'[c] = result[c] /\ pc'[c] = pc[c])]_vars

C6_Witness ==
    \E c, d \in Calls :
        /\ StatusOf(c) = "completed"
        /\ StatusOf(d) = "processing"

(***************************************************************************)
(* Re-ingestion and the read path.                                         *)
(***************************************************************************)
\* Calls c and d ingested the same unchanged file with the same
\* configuration, both returned completed, and no other call wrote records
\* of another version of that file.
IngestedTwice(c, d) ==
    /\ c # d
    /\ Completed(c)
    /\ Completed(d)
    /\ file[c] = file[d]
    /\ config[c] = config[d]
    /\ \A e \in Calls :
          (Completed(e) /\ file[e].name = file[c].name) =>
              (file[e] = file[c] /\ config[e] = config[c])

\* The store holds for the file of call c exactly the records of that call.
HoldsExactly(c) ==
    /\ RecordsOf(store, file[c].name) = ChunkIds(c)
    /\ \A i \in 0 .. Len(textArray[c]) - 1 :
          store[IdText(file[c].name, i)] = ExpectedDoc(c, i)

(***************************************************************************)
(* C7, as claimed: after two ingestions of the same unchanged file with    *)
(* the same configuration the store holds the record ids and records of    *)
(* the first run, and listDocuments() has exactly one entry for the file   *)
(* name.                                                                   *)
(***************************************************************************)
C7_AsClaimed ==
    \A c, d \in Calls :
        IngestedTwice(c, d) =>
            /\ HoldsExactly(c)
            /\ file[c].name \in ListDocuments

(***************************************************************************)
(* C7, amended: if both runs return completed, the store holds for the     *)
(* file name exactly the records of one run (same ids, same record at each *)
(* chunk index); listDocuments() has the file name once when the file has  *)
(* at least one chunk, and does not have it when the file has no chunk.    *)
(***************************************************************************)
C7_Reingestion ==
    \A c, d \in Calls :
        IngestedTwice(c, d) =>
            /\ vectorDocs[c] = vectorDocs[d]
            /\ HoldsExactly(c)
            /\ Cardinality(RecordsOf(store, file[c].name)) = Len(textArray[c])
            /\ file[c].name \in ListDocuments <=> Len(textArray[c]) >= 1

C7_Witness ==
    \E c, d \in Calls :
        /\ IngestedTwice(c, d)
        /\ Len(textArray[c]) = 2
        /\ file[c].name \in ListDocuments
        /\ Cardinality(DOMAIN store) = 2

NoLongerVersion(c) == RecordsOf(store, file[c].name) \subseteq ChunkIds(c)

OnlyCallFor(c) == \A d \in Calls \ {c} : file[d].name # file[c].name

\* The store after call c alone, started on an empty store.
Alone(c) == Upsert(EmptyStore, vectorDocs[c])

C9_ConcurrentCallsKeepApart ==
    /\ \A c \in Calls :
          \A k \in DOMAIN vectorDocs[c] :
              /\ vectorDocs[c][k].id = IdText(file[c].name, k - 1)
              /\ vectorDocs[c][k].payload.metadata.source = file[c].name
    /\ \A c, d \in Calls :
          file[c].name # file[d].name =>
              DocIds(vectorDocs[c]) \cap DocIds(vectorDocs[d]) = {}
    /\ \A c \in Calls :
          (Completed(c) /\ OnlyCallFor(c)) =>
              /\ RecordsOf(store, file[c].name) = DOMAIN Alone(c)
              /\ \A id \in DOMAIN Alone(c) : store[id] = Alone(c)[id]
              /\ Cardinality(DOMAIN Alone(c)) = Len(textArray[c])
    /\ \A c \in Calls :
          (Errored(c) /\ OnlyCallFor(c)) => RecordsOf(store, file[c].name) = {}

C9_Witness ==
    \E c, d \in Calls :
        /\ file[c].name # file[d].name
        /\ Completed(c)
        /\ pc[d] = "storing"
        /\ "storeVectors" \in invoked[d]
        /\ Len(textArray[c]) = 2
        /\ Len(textArray[d]) = 2
        /\ DOMAIN store = ChunkIds(c)

(***************************************************************************)
(* C10: re-ingesting a file name whose new version has m chunks after a    *)
(* completed ingestion with n > m chunks overwrites the records at indices *)
(* 0..m-1 and deletes nothing: the records '<fileName>-<m>' ..             *)
(* '<fileName>-<n-1>' of the earlier run stay in the store although the    *)
(* second call returns completed with totalChunks m.                       *)
(***************************************************************************)
C10_ShrinkLeavesOrphans ==
    [][\A d \in Calls :
          (pc[d] = "storing" /\ Completed(d)') =>
              /\ result'[d].totalChunks = Len(textArray[d])
              /\ invoked'[d] = {"processDocument", "embedDocuments", "storeVectors"}
              /\ \A i \in 0 .. Len(textArray[d]) - 1 :
                    /\ IdText(file[d].name, i) \in DOMAIN store'
                    /\ store'[IdText(file[d].name, i)] = ExpectedDoc(d, i)
              /\ \A id \in DOMAIN store \ ChunkIds(d) :
                    /\ id \in DOMAIN store'
                    /\ store'[id] = store[id]
              /\ DOMAIN store' = DOMAIN store \cup ChunkIds(d)]_vars

\* Call d returned completed for a shorter version after call c had stored a
\* longer one: record 0 is d's, the records from index m on are still c's.
C10_Witness ==
    \E c, d \in Calls :
        /\ Completed(c)
        /\ Completed(d)
        /\ file[c].name = file[d].name
        /\ Len(textArray[d]) = 1
        /\ Len(textArray[c]) = 2
        /\ result[d].totalChunks = 1
        /\ ExpectedDoc(c, 0) # ExpectedDoc(d, 0)
        /\ store[IdText(file[d].name, 0)] = ExpectedDoc(d, 0)
        /\ store[IdText(file[d].name, 1)] = ExpectedDoc(c, 1)
        /\ GetDocumentStats(file[d].name).totalChunks = 2

====
